---- MODULE Spec2Model ----
(***************************************************************************)
(* Progression engine of the EcoQuest app (component EcoQuestApp, kept in  *)
(* src/src/serviceWorkerRegistration.js): points, level, hotspots,         *)
(* monsters, missions, badges, events and notifications, the handlers that *)
(* change them and the two effects (level, badge unlock) that react to     *)
(* every committed render.                                                 *)
(*                                                                         *)
(* React scheduling as modelled: a handler runs on the values of the last  *)
(* committed render; all setter calls of one handler are batched into one  *)
(* render; the effects of that render run (both on the render's values)    *)
(* before the next user event is handled.  dirty = TRUE means "a render    *)
(* was committed whose effects have not run yet".                          *)
(*                                                                         *)
(* Coordinates are integers in units of 1e-5 degree.  Messages are         *)
(* abstracted to a kind and the number the text interpolates.              *)
(*                                                                         *)
(* Besides the engine (Spec) the module has the location and proximity     *)
(* test (SpecNearby, SpecLocation), the store with failing writes          *)
(* (SpecStore), page reloads (SpecRestart, SpecReactions), a long          *)
(* reporting walk for the environment score (SpecScore) and the camera     *)
(* screen with its close timers (SpecCamera).                              *)
(***************************************************************************)
EXTENDS Integers, Sequences, FiniteSets, TLC

VARIABLES userPoints, level, hotspots, monsters, notifications, missions,
          badges, events, now, dirty, ops,
          userLocation,     \* <<>> while unresolved (null), else <<[lat, lng]>>
          loadingLocation,  \* the geolocation request has not called back yet
          nearbyCall,       \* <<>> or the last call of isMonsterNearby with its result
          store,            \* localStorage: key -> stored value, for the keys set
          storeOk,          \* FALSE while localStorage.setItem throws
          cameraActive,     \* the camera screen is shown
          cameraSession,    \* number of times the camera was opened so far
          currentMonster,   \* CameraScreen state: <<>> (null) or <<the monster offered>>
          cameraError,      \* CameraScreen state: getUserMedia was rejected
          setups,           \* setupCamera calls awaiting getUserMedia
          timers            \* pending setTimeout(() => setCameraActive(false), ms)

\* the state of the progression engine
engineVars == <<userPoints, level, hotspots, monsters, notifications, missions,
                badges, events, now, dirty, ops>>

\* location state and the observed isMonsterNearby call
geoVars == <<userLocation, loadingLocation, nearbyCall>>

\* the camera screen and the close timers
cameraVars == <<cameraActive, cameraSession, currentMonster, cameraError, setups, timers>>

vars == <<userPoints, level, hotspots, monsters, notifications, missions,
          badges, events, now, dirty, ops,
          userLocation, loadingLocation, nearbyCall, store, storeOk,
          cameraActive, cameraSession, currentMonster, cameraError, setups, timers>>

(* ---------------------------- bounds ----------------------------------- *)
\* number of handler invocations explored
MaxOps == 3
\* number of clock advances explored
MaxTicks == 1
\* number of handler invocations explored while the store can fail
MaxStoreOps == 2

(* ------------------------- program constants --------------------------- *)
\* first reading of Date.now(), far above the seed ids 1..4
T0 == 1000
\* length of 1e-5 degree of latitude in units of 1/90 m:
\* 6371 km * (PI/180) * 1e-5 = 1.11195 m
LatUnit == 100
\* length of 1e-5 degree of longitude at latitude 37.60, same unit:
\* 1.11195 m * cos(37.60 deg) = 0.88099 m
LngUnit == 79
\* 0.1 km, the hotspot matching radius, in units of 1/90 m
HotspotRadius == 9000
\* 0.05 km, the monster proximity radius, in units of 1/90 m
NearbyRadius == 4500
\* points granted by one report
ReportPoints == 50
\* points granted by one badge unlock
BadgeBonus == 100
\* points per level
PointsPerLevel == 100

(* ------------------------------ helpers -------------------------------- *)
Last(s) == s[Len(s)]

\* Array.prototype.map
Map(s, F(_)) == [i \in 1..Len(s) |-> F(s[i])]

\* variant of FindIndex: the first element stands in when no id matches
FindIndexOrFirst(s, id) ==
    LET I == {i \in 1..Len(s) : s[i].id = id}
    IN  IF I = {} THEN 1 ELSE CHOOSE i \in I : \A j \in I : i <= j

\* index of the first element with the given id, 0 when there is none
\* (Array.prototype.find on the id)
FindIndex(s, id) ==
    LET I == {i \in 1..Len(s) : s[i].id = id}
    IN  IF I = {} THEN 0 ELSE CHOOSE i \in I : \A j \in I : i <= j

\* variant of setStoredValue: the state is set only after a successful write
setStoredValueAfterWrite(storedValue, valueToStore) ==
    IF storeOk THEN valueToStore ELSE storedValue

\* setValue calls setStoredValue(valueToStore) before localStorage.setItem,
\* inside the try: the state is set whether or not the write then throws
setStoredValue(storedValue, valueToStore) == valueToStore

\* JSON.stringify of a persisted value: the item text.  Every persisted value
\* is built from finite numbers, strings, booleans, arrays and plain objects;
\* the text is kept as the one-element sequence holding the value it encodes,
\* so it is never the empty (falsy) item
JSONstringify(value) == <<value>>

\* JSON.parse of an item text written by JSONstringify
JSONparse(item) == item[1]

\* window.localStorage.getItem(key): the item, <<>> (null) for an absent key
getItem(key) == IF key \in DOMAIN store THEN store[key] ELSE <<>>

\* variant of useLocalStorageInit: the stored item is ignored
useLocalStorageInitDefault(key, initialValue) == initialValue

\* initialiser of useLocalStorage's state: item ? JSON.parse(item) : initialValue
useLocalStorageInit(key, initialValue) ==
    IF getItem(key) # <<>> THEN JSONparse(getItem(key)) ELSE initialValue

\* localStorage.setItem(key, JSON.stringify(valueToStore)) of the setValue
\* calls of one handler for one key: when a call was made and the store
\* accepts writes, the last value is what the key holds; when the write
\* throws, the catch logs and the key keeps what it had
setItem(st, key, called, valueToStore) ==
    IF called /\ storeOk
    THEN [k \in DOMAIN st \cup {key} |->
            IF k = key THEN JSONstringify(valueToStore) ELSE st[k]]
    ELSE st

\* useLocalStorage.setValue called with plain values: every call stores its
\* argument, the render commits the last one
setValuePlain(storedValue, values) ==
    IF values = <<>> THEN storedValue ELSE setStoredValue(storedValue, Last(values))

\* variant of setValueAdd: the amount is stored as the value itself
setValueAddPlain(storedValue, incs) ==
    IF incs = <<>> THEN storedValue ELSE Last(incs)

\* useLocalStorage.setValue called with updaters prev => prev + k: every
\* updater is applied to the storedValue of the render that created the
\* setter, not to the result of the preceding call; the last call wins
setValueAdd(storedValue, incs) ==
    IF incs = <<>> THEN storedValue ELSE setStoredValue(storedValue, storedValue + Last(incs))

\* useLocalStorage.setValue called with updaters prev => [n, ...prev]
setValuePrepend(storedValue, news) ==
    IF news = <<>> THEN storedValue ELSE setStoredValue(storedValue, <<Last(news)>> \o storedValue)

\* calculateDistance, squared and in units of 1/90 m.  For the sub-kilometre
\* distances compared here the haversine formula reduces to
\* R * sqrt(dLat^2 + cos(lat)^2 * dLng^2) (small-angle form); a distance is
\* compared with a radius by comparing the squares.
calculateDistance(lat1, lng1, lat2, lng2) ==
    LET dLat == (lat2 - lat1) * LatUnit
        dLng == (lng2 - lng1) * LngUnit
    IN  dLat * dLat + dLng * dLng

\* variant of LevelOf: the + 1 is dropped
LevelOfZeroBased(points) == points \div PointsPerLevel

\* Math.floor(userPoints / 100) + 1
LevelOf(points) == (points \div PointsPerLevel) + 1

\* variant of newLevelOf: inclusive thresholds
newLevelOfInclusive(newReportCount) ==
    IF newReportCount >= 10 THEN "high"
    ELSE IF newReportCount >= 5 THEN "medium"
    ELSE "low"

\* severity chosen by reportIllegalDumping for a report count
newLevelOf(newReportCount) ==
    IF newReportCount > 10 THEN "high"
    ELSE IF newReportCount > 5 THEN "medium"
    ELSE "low"

(* ------------------------------ seed data ------------------------------ *)
SeedPoints == 750

SeedHotspots == <<
    [id |-> 1, level |-> "high",   lastReport |-> "10min", lat |-> 3760200, lng |-> 12701500, reportCount |-> 12],
    [id |-> 2, level |-> "medium", lastReport |-> "1h",    lat |-> 3760300, lng |-> 12701800, reportCount |-> 8],
    [id |-> 3, level |-> "low",    lastReport |-> "yesterday", lat |-> 3760100, lng |-> 12701300, reportCount |-> 3],
    [id |-> 4, level |-> "medium", lastReport |-> "2h",    lat |-> 3760400, lng |-> 12701700, reportCount |-> 7] >>

SeedMonsters == <<
    [id |-> 1, type |-> "plastic", points |-> 50, captured |-> FALSE, lat |-> 3760200, lng |-> 12701500, rarity |-> "common"],
    [id |-> 2, type |-> "plastic", points |-> 70, captured |-> FALSE, lat |-> 3760310, lng |-> 12701850, rarity |-> "rare"],
    [id |-> 3, type |-> "paper",   points |-> 30, captured |-> TRUE,  lat |-> 3760110, lng |-> 12701290, rarity |-> "common"],
    [id |-> 4, type |-> "metal",   points |-> 60, captured |-> FALSE, lat |-> 3760220, lng |-> 12701550, rarity |-> "uncommon"],
    [id |-> 5, type |-> "plastic", points |-> 45, captured |-> FALSE, lat |-> 3760400, lng |-> 12701700, rarity |-> "common"],
    [id |-> 6, type |-> "glass",   points |-> 80, captured |-> FALSE, lat |-> 3760500, lng |-> 12701400, rarity |-> "rare"] >>

SeedNotifications == <<
    [id |-> 1, msg |-> "hotspotAlert", arg |-> 0, urgent |-> TRUE,  read |-> FALSE],
    [id |-> 2, msg |-> "newMonster",   arg |-> 0, urgent |-> FALSE, read |-> FALSE],
    [id |-> 3, msg |-> "todayMission", arg |-> 0, urgent |-> FALSE, read |-> TRUE],
    [id |-> 4, msg |-> "levelUp",      arg |-> 7, urgent |-> FALSE, read |-> TRUE] >>

SeedMissions == <<
    [id |-> 1, type |-> "daily",  reward |-> 150, completed |-> FALSE, progress |-> 1, total |-> 3],
    [id |-> 2, type |-> "daily",  reward |-> 100, completed |-> FALSE, progress |-> 0, total |-> 1],
    [id |-> 3, type |-> "weekly", reward |-> 300, completed |-> FALSE, progress |-> 1, total |-> 3],
    [id |-> 4, type |-> "weekly", reward |-> 250, completed |-> FALSE, progress |-> 0, total |-> 1] >>

SeedBadges(lvl) == <<
    [id |-> 1, progress |-> 4,   total |-> 10, unlocked |-> FALSE],
    [id |-> 2, progress |-> 3,   total |-> 5,  unlocked |-> FALSE],
    [id |-> 3, progress |-> 12,  total |-> 20, unlocked |-> FALSE],
    [id |-> 4, progress |-> 7,   total |-> 10, unlocked |-> FALSE],
    [id |-> 5, progress |-> lvl, total |-> 10, unlocked |-> FALSE] >>

SeedEvents == <<
    [id |-> 1, participants |-> 23, reward |-> 300],
    [id |-> 2, participants |-> 15, reward |-> 200],
    [id |-> 3, participants |-> 31, reward |-> 250] >>

(* --------------------------- input domains ----------------------------- *)
\* ids handed to captureMonster: the six monsters and one unknown id
CaptureIds == 1..7
\* ids handed to joinEvent: the three events and one unknown id
EventIds == 1..4
\* contacts handed to inviteFriend: the address the screens pass and an empty one
Contacts == {"example@example.com", ""}
\* the fixed coordinates used when geolocation fails or is unsupported
DefaultLocation == [lat |-> 3760200, lng |-> 12701500]
\* positions reported by the geolocation provider: on monster 1, exactly
\* 0.05 km north of it, just beyond that, just inside and just outside
\* 0.05 km west of it, near monster 2, on monsters 5 and 6, far from all
GeoPositions == {
    [lat |-> 3760200, lng |-> 12701500],
    [lat |-> 3760245, lng |-> 12701500],
    [lat |-> 3760246, lng |-> 12701500],
    [lat |-> 3760200, lng |-> 12701444],
    [lat |-> 3760200, lng |-> 12701443],
    [lat |-> 3760300, lng |-> 12701800],
    [lat |-> 3760400, lng |-> 12701700],
    [lat |-> 3760500, lng |-> 12701400],
    [lat |-> 3760200, lng |-> 12701650] }
\* reported coordinates: the default user location (on hotspot 1), a point
\* within 0.1 km of both hotspot 2 and hotspot 4, and a point far from all
ReportLocations == {
    [lat |-> 3760200, lng |-> 12701500],
    [lat |-> 3760350, lng |-> 12701750],
    [lat |-> 3760200, lng |-> 12701650] }

(* -------------------------------- Init --------------------------------- *)
Init ==
    /\ userPoints = SeedPoints
    /\ level = LevelOf(SeedPoints)
    /\ hotspots = SeedHotspots
    /\ monsters = SeedMonsters
    /\ notifications = SeedNotifications
    /\ missions = SeedMissions
    /\ badges = SeedBadges(LevelOf(SeedPoints))
    /\ events = SeedEvents
    /\ now = T0
    /\ dirty = TRUE
    /\ ops = 0
    /\ userLocation = <<>>
    /\ loadingLocation = TRUE
    /\ nearbyCall = <<>>
    /\ store = <<>>
    /\ storeOk = TRUE
    /\ cameraActive = FALSE
    /\ cameraSession = 0
    /\ currentMonster = <<>>
    /\ cameraError = FALSE
    /\ setups = {}
    /\ timers = {}

(* --------------------------- mission update ---------------------------- *)
\* the block "const updatedMissions = missions.map(...)" that each handler
\* runs for its own mission id when that mission exists and is not completed
\* variant of missionApplies: a completed mission is updated as well
missionAppliesCompleted(mid) == FindIndex(missions, mid) # 0

missionApplies(mid) ==
    /\ FindIndex(missions, mid) # 0
    /\ ~missions[FindIndex(missions, mid)].completed

missionCompletes(mission) ==
    /\ mission.progress + 1 >= mission.total
    /\ ~mission.completed

\* variant of updatedMission: completion needs progress beyond the total
updatedMissionStrict(mission) ==
    [mission EXCEPT !.progress = mission.progress + 1,
                    !.completed = (mission.progress + 1 > mission.total)]

updatedMission(mission) ==
    [mission EXCEPT !.progress = mission.progress + 1,
                    !.completed = (mission.progress + 1 >= mission.total)]

updatedMissions(mid) ==
    Map(missions, LAMBDA mission : IF mission.id = mid THEN updatedMission(mission) ELSE mission)

\* the reward passed to setUserPoints(prev => prev + mission.reward), if any
missionRewards(mid) ==
    IF missionApplies(mid) /\ missionCompletes(missions[FindIndex(missions, mid)])
    THEN <<missions[FindIndex(missions, mid)].reward>> ELSE <<>>

\* the mission-completion notification, if any, with the id the handler gives it
missionNotifications(mid, nid) ==
    IF missionApplies(mid) /\ missionCompletes(missions[FindIndex(missions, mid)])
    THEN <<[id |-> nid, msg |-> "missionComplete", arg |-> mid, urgent |-> FALSE, read |-> FALSE]>>
    ELSE <<>>

\* variant of incrementBadge: the progress of every badge grows
incrementBadgeAll(bid) ==
    Map(badges, LAMBDA badge : [badge EXCEPT !.progress = badge.progress + 1])

incrementBadge(bid) ==
    Map(badges, LAMBDA badge : IF badge.id = bid THEN [badge EXCEPT !.progress = badge.progress + 1] ELSE badge)

(* ---------------------------- camera screen ---------------------------- *)
\* variant of isMonsterNearby: the radius itself is excluded
isMonsterNearbyStrict(monsterLat, monsterLng) ==
    IF userLocation = <<>> THEN FALSE
    ELSE calculateDistance(userLocation[1].lat, userLocation[1].lng, monsterLat, monsterLng)
            < NearbyRadius * NearbyRadius

isMonsterNearby(monsterLat, monsterLng) ==
    IF userLocation = <<>> THEN FALSE
    ELSE calculateDistance(userLocation[1].lat, userLocation[1].lng, monsterLat, monsterLng)
            <= NearbyRadius * NearbyRadius

\* variant of nearbyMonsters: captured monsters are not filtered out
nearbyMonstersAny ==
    {monsters[i].id : i \in {j \in 1..Len(monsters) :
        isMonsterNearby(monsters[j].lat, monsters[j].lng)}}

\* monsters.filter(m => !m.captured && isMonsterNearby(m.lat, m.lng)) of
\* setupCamera, as the set of the ids
nearbyMonsters ==
    {monsters[i].id : i \in {j \in 1..Len(monsters) :
        ~monsters[j].captured /\ isMonsterNearby(monsters[j].lat, monsters[j].lng)}}

\* the setupCamera calls in flight once their CameraScreen is unmounted: the
\* promise still settles, the state setters of the screen no longer act
staleSetups == {[s EXCEPT !.live = FALSE] : s \in setups}

\* CameraScreen is declared inside EcoQuestApp, so each render of
\* EcoQuestApp yields a new component type: while the camera is shown the
\* screen is unmounted and mounted again, its state starts over and its
\* mount effect calls setupCamera with the monsters and the location of
\* that render
CameraScreenRender(rendered) ==
    IF rendered /\ cameraActive
    THEN /\ currentMonster' = <<>>
         /\ cameraError' = FALSE
         /\ setups' = staleSetups \cup {[live |-> TRUE, nearby |-> nearbyMonsters']}
    ELSE UNCHANGED <<currentMonster, cameraError, setups>>

\* the camera session a timer is scheduled in, 0 outside every session
scheduledIn == IF cameraActive THEN cameraSession ELSE 0

\* setTimeout(() => setCameraActive(false), ms): the pending timers after
\* the call; no timer is ever cleared
setTimeout(ms) == timers \cup {[session |-> scheduledIn, ms |-> ms]}

(* ------------------------------ handlers ------------------------------- *)
\* a user event is handled only after the effects of the last render ran
Ready == ~dirty

\* the exploration bound on handler invocations
OpsReady == ops < MaxOps

\* the keys of the persisted slices
KeyPoints == "ecoquest-points"
KeyHotspots == "ecoquest-hotspots"
KeyMonsters == "ecoquest-monsters"
KeyNotifications == "ecoquest-notifications"
KeyMissions == "ecoquest-missions"
KeyBadges == "ecoquest-badges"

captureMonster(id) ==
    LET k == FindIndex(monsters, id)
        found == k # 0
        capturedMonster == monsters[k]
        plastic == found /\ capturedMonster.type = "plastic"
        captureNotification ==
            [id |-> now, msg |-> "capture", arg |-> id, urgent |-> FALSE, read |-> FALSE]
        pointsCalls ==
            IF found
            THEN <<capturedMonster.points>> \o (IF plastic THEN missionRewards(1) ELSE <<>>)
            ELSE <<>>
        notificationCalls ==
            IF found
            THEN <<captureNotification>> \o (IF plastic THEN missionNotifications(1, now + 1) ELSE <<>>)
            ELSE <<>>
        badgeCalls == IF plastic THEN <<incrementBadge(1)>> ELSE <<>>
        missionCalls == IF plastic /\ missionApplies(1) THEN <<updatedMissions(1)>> ELSE <<>>
    IN  /\ Ready
        /\ monsters' = setValuePlain(monsters, <<Map(monsters, LAMBDA monster :
                IF monster.id = id THEN [monster EXCEPT !.captured = TRUE] ELSE monster)>>)
        /\ userPoints' = setValueAdd(userPoints, pointsCalls)
        /\ notifications' = setValuePrepend(notifications, notificationCalls)
        /\ badges' = setValuePlain(badges, badgeCalls)
        /\ missions' = setValuePlain(missions, missionCalls)
        /\ store' = setItem(setItem(setItem(setItem(setItem(store,
                        KeyMonsters, TRUE, monsters'),
                        KeyPoints, pointsCalls # <<>>, userPoints'),
                        KeyNotifications, notificationCalls # <<>>, notifications'),
                        KeyBadges, badgeCalls # <<>>, badges'),
                        KeyMissions, missionCalls # <<>>, missions')
        /\ dirty' = TRUE
        /\ ops' = ops + 1
        /\ UNCHANGED <<level, hotspots, events, now, storeOk>>
        /\ UNCHANGED geoVars
        \* the timer that closes the camera after the capture
        /\ timers' = setTimeout(1500)
        /\ UNCHANGED <<cameraActive, cameraSession>>
        /\ CameraScreenRender(dirty')

\* variant of existingHotspot: the last matching hotspot is taken
existingHotspotLast(location) ==
    LET I == {i \in 1..Len(hotspots) :
                calculateDistance(hotspots[i].lat, hotspots[i].lng, location.lat, location.lng)
                    < HotspotRadius * HotspotRadius}
    IN  IF I = {} THEN 0 ELSE CHOOSE i \in I : \A j \in I : i >= j

\* index of the first hotspot closer than 0.1 km to the location, 0 if none
existingHotspot(location) ==
    LET I == {i \in 1..Len(hotspots) :
                calculateDistance(hotspots[i].lat, hotspots[i].lng, location.lat, location.lng)
                    < HotspotRadius * HotspotRadius}
    IN  IF I = {} THEN 0 ELSE CHOOSE i \in I : \A j \in I : i <= j

updatedHotspot(spot) ==
    [spot EXCEPT !.lastReport = "now",
                 !.reportCount = spot.reportCount + 1,
                 !.level = newLevelOf(spot.reportCount + 1)]

\* variant of newHotspot: the count starts at 0
newHotspotUncounted(location) ==
    [id |-> now, level |-> "low", lastReport |-> "now",
     lat |-> location.lat, lng |-> location.lng, reportCount |-> 0]

newHotspot(location) ==
    [id |-> now, level |-> "low", lastReport |-> "now",
     lat |-> location.lat, lng |-> location.lng, reportCount |-> 1]

reportIllegalDumping(location) ==
    LET e == existingHotspot(location)
        reportNotification ==
            [id |-> now + 1, msg |-> "report", arg |-> ReportPoints, urgent |-> FALSE, read |-> FALSE]
        missionCalls == IF missionApplies(2) THEN <<updatedMissions(2)>> ELSE <<>>
    IN  /\ Ready
        /\ hotspots' = setValuePlain(hotspots,
              IF e # 0
              THEN <<Map(hotspots, LAMBDA spot :
                      IF spot.id = hotspots[e].id THEN updatedHotspot(spot) ELSE spot)>>
              ELSE <<Append(hotspots, newHotspot(location))>>)
        /\ missions' = setValuePlain(missions, missionCalls)
        /\ badges' = setValuePlain(badges, <<incrementBadge(2)>>)
        /\ userPoints' = setValueAdd(userPoints, missionRewards(2) \o <<ReportPoints>>)
        /\ notifications' = setValuePrepend(notifications,
                missionNotifications(2, now) \o <<reportNotification>>)
        /\ store' = setItem(setItem(setItem(setItem(setItem(store,
                        KeyHotspots, TRUE, hotspots'),
                        KeyMissions, missionCalls # <<>>, missions'),
                        KeyBadges, TRUE, badges'),
                        KeyPoints, TRUE, userPoints'),
                        KeyNotifications, TRUE, notifications')
        /\ dirty' = TRUE
        /\ ops' = ops + 1
        /\ UNCHANGED <<level, monsters, events, now, storeOk>>
        /\ UNCHANGED geoVars
        /\ UNCHANGED <<cameraActive, cameraSession, timers>>
        /\ CameraScreenRender(dirty')

joinEvent(eventId) ==
    LET k == FindIndex(events, eventId)
        found == k # 0
        joinNotification ==
            [id |-> now, msg |-> "join", arg |-> events[k].reward, urgent |-> FALSE, read |-> FALSE]
        notificationCalls ==
            IF found THEN <<joinNotification>> \o missionNotifications(4, now + 1) ELSE <<>>
        pointsCalls == IF found THEN missionRewards(4) ELSE <<>>
        missionCalls == IF found /\ missionApplies(4) THEN <<updatedMissions(4)>> ELSE <<>>
        badgeCalls == IF found THEN <<incrementBadge(4)>> ELSE <<>>
    IN  /\ Ready
        \* events is plain component state, not persisted
        /\ events' = IF found
                     THEN Map(events, LAMBDA ev :
                            IF ev.id = eventId THEN [ev EXCEPT !.participants = ev.participants + 1] ELSE ev)
                     ELSE events
        /\ notifications' = setValuePrepend(notifications, notificationCalls)
        /\ userPoints' = setValueAdd(userPoints, pointsCalls)
        /\ missions' = setValuePlain(missions, missionCalls)
        /\ badges' = setValuePlain(badges, badgeCalls)
        /\ store' = setItem(setItem(setItem(setItem(store,
                        KeyNotifications, notificationCalls # <<>>, notifications'),
                        KeyPoints, pointsCalls # <<>>, userPoints'),
                        KeyMissions, missionCalls # <<>>, missions'),
                        KeyBadges, badgeCalls # <<>>, badges')
        \* no setter is called for an unknown event: nothing is rendered
        /\ dirty' = found
        /\ ops' = ops + 1
        /\ UNCHANGED <<level, hotspots, monsters, now, storeOk>>
        /\ UNCHANGED geoVars
        /\ UNCHANGED <<cameraActive, cameraSession, timers>>
        /\ CameraScreenRender(dirty')

\* variant of inviteFriend: an empty contact is rejected before anything is done
inviteFriendValidated(email) ==
    /\ Ready
    /\ IF email = ""
       THEN UNCHANGED <<missions, userPoints, notifications, dirty, store>>
       ELSE /\ missions' = IF missionApplies(3) THEN updatedMissions(3) ELSE missions
            /\ userPoints' = setValueAdd(userPoints, missionRewards(3))
            /\ notifications' = setValuePrepend(notifications,
                    missionNotifications(3, now) \o
                    <<[id |-> now, msg |-> "invite", arg |-> 100, urgent |-> FALSE, read |-> FALSE]>>)
            /\ store' = setItem(setItem(setItem(store,
                            KeyMissions, missionApplies(3), missions'),
                            KeyPoints, missionRewards(3) # <<>>, userPoints'),
                            KeyNotifications, TRUE, notifications')
            /\ dirty' = TRUE
    /\ ops' = ops + 1
    /\ UNCHANGED <<level, hotspots, monsters, badges, events, now, storeOk>>
    /\ UNCHANGED geoVars
    /\ UNCHANGED <<cameraActive, cameraSession, timers>>
    /\ CameraScreenRender(dirty')

\* the contact is not read by the handler
inviteFriend(email) ==
    LET inviteNotification ==
            [id |-> now, msg |-> "invite", arg |-> 100, urgent |-> FALSE, read |-> FALSE]
        missionCalls == IF missionApplies(3) THEN <<updatedMissions(3)>> ELSE <<>>
    IN  /\ Ready
        /\ missions' = setValuePlain(missions, missionCalls)
        /\ userPoints' = setValueAdd(userPoints, missionRewards(3))
        /\ notifications' = setValuePrepend(notifications,
                missionNotifications(3, now) \o <<inviteNotification>>)
        /\ store' = setItem(setItem(setItem(store,
                        KeyMissions, missionCalls # <<>>, missions'),
                        KeyPoints, missionRewards(3) # <<>>, userPoints'),
                        KeyNotifications, TRUE, notifications')
        /\ dirty' = TRUE
        /\ ops' = ops + 1
        /\ UNCHANGED <<level, hotspots, monsters, badges, events, now, storeOk>>
        /\ UNCHANGED geoVars
        /\ UNCHANGED <<cameraActive, cameraSession, timers>>
        /\ CameraScreenRender(dirty')

markNotificationAsRead(id) ==
    /\ Ready
    /\ notifications' = setValuePlain(notifications, <<Map(notifications, LAMBDA notif :
            IF notif.id = id THEN [notif EXCEPT !.read = TRUE] ELSE notif)>>)
    /\ store' = setItem(store, KeyNotifications, TRUE, notifications')
    /\ dirty' = TRUE
    /\ ops' = ops + 1
    /\ UNCHANGED <<userPoints, level, hotspots, monsters, missions, badges, events, now, storeOk>>
    /\ UNCHANGED geoVars
    /\ UNCHANGED <<cameraActive, cameraSession, timers>>
    /\ CameraScreenRender(dirty')

\* variant of markAllNotificationsAsRead: the flag is toggled
markAllNotificationsAsReadToggle ==
    /\ Ready
    /\ notifications' = Map(notifications, LAMBDA notif : [notif EXCEPT !.read = ~notif.read])
    /\ store' = setItem(store, KeyNotifications, TRUE, notifications')
    /\ dirty' = TRUE
    /\ ops' = ops + 1
    /\ UNCHANGED <<userPoints, level, hotspots, monsters, missions, badges, events, now, storeOk>>
    /\ UNCHANGED geoVars
    /\ UNCHANGED <<cameraActive, cameraSession, timers>>
    /\ CameraScreenRender(dirty')

markAllNotificationsAsRead ==
    /\ Ready
    /\ notifications' = setValuePlain(notifications,
            <<Map(notifications, LAMBDA notif : [notif EXCEPT !.read = TRUE])>>)
    /\ store' = setItem(store, KeyNotifications, TRUE, notifications')
    /\ dirty' = TRUE
    /\ ops' = ops + 1
    /\ UNCHANGED <<userPoints, level, hotspots, monsters, missions, badges, events, now, storeOk>>
    /\ UNCHANGED geoVars
    /\ UNCHANGED <<cameraActive, cameraSession, timers>>
    /\ CameraScreenRender(dirty')

(* ------------------------------- effects ------------------------------- *)
\* variant of levelBadges: the level is written to another badge
levelBadgesWrongId(newLevel) ==
    Map(badges, LAMBDA badge : IF badge.id = 3 THEN [badge EXCEPT !.progress = newLevel] ELSE badge)

\* level effect: the badges it stores on a level-up
levelBadges(newLevel) ==
    Map(badges, LAMBDA badge : IF badge.id = 5 THEN [badge EXCEPT !.progress = newLevel] ELSE badge)

levelNotification(newLevel) ==
    [id |-> now, msg |-> "levelUp", arg |-> newLevel, urgent |-> FALSE, read |-> FALSE]

\* variant of unlockable: the total itself does not unlock
unlockableStrict(badge) == badge.progress > badge.total /\ ~badge.unlocked

\* badge effect: a badge to unlock
unlockable(badge) == badge.progress >= badge.total /\ ~badge.unlocked

\* variant of hasUnlockableBadge: the badge effect never finds a badge
hasUnlockableBadgeNever == FALSE

hasUnlockableBadge == \E i \in 1..Len(badges) : unlockable(badges[i])

unlockedBadges ==
    Map(badges, LAMBDA badge : IF unlockable(badge) THEN [badge EXCEPT !.unlocked = TRUE] ELSE badge)

badgeNotification(badge) ==
    [id |-> now, msg |-> "badge", arg |-> badge.id, urgent |-> FALSE, read |-> FALSE]

\* the unlockable badges in array order
unlockableBadges == SelectSeq(badges, unlockable)

\* The level effect and the badge effect of one render, run in this order on
\* the values of that render.
Effects ==
    LET newLevel == LevelOf(userPoints)
        levelChanged == newLevel # level
        levelUp == newLevel > level
        notificationCalls ==
            (IF levelUp THEN <<levelNotification(newLevel)>> ELSE <<>>)
            \o Map(unlockableBadges, badgeNotification)
        badgeCalls ==
            (IF levelUp THEN <<levelBadges(newLevel)>> ELSE <<>>)
            \o (IF hasUnlockableBadge THEN <<unlockedBadges>> ELSE <<>>)
        pointsCalls == Map(unlockableBadges, LAMBDA badge : BadgeBonus)
    IN  /\ dirty
        \* level is plain component state, not persisted
        /\ level' = IF levelChanged THEN newLevel ELSE level
        /\ notifications' = setValuePrepend(notifications, notificationCalls)
        /\ badges' = setValuePlain(badges, badgeCalls)
        /\ userPoints' = setValueAdd(userPoints, pointsCalls)
        /\ store' = setItem(setItem(setItem(store,
                        KeyNotifications, notificationCalls # <<>>, notifications'),
                        KeyBadges, badgeCalls # <<>>, badges'),
                        KeyPoints, pointsCalls # <<>>, userPoints')
        \* a setter call renders again; without one the app is at rest
        /\ dirty' = (levelChanged \/ hasUnlockableBadge)
        /\ UNCHANGED <<hotspots, monsters, missions, events, now, ops, storeOk>>
        /\ UNCHANGED geoVars
        /\ UNCHANGED <<cameraActive, cameraSession, timers>>
        /\ CameraScreenRender(dirty')

\* the clock read by Date.now() advances
Tick ==
    /\ now < T0 + MaxTicks
    /\ now' = now + 1
    /\ UNCHANGED <<userPoints, level, hotspots, monsters, notifications, missions,
                   badges, events, dirty, ops, store, storeOk>>
    /\ UNCHANGED geoVars
    /\ UNCHANGED cameraVars

(* ----------------------------- geolocation ----------------------------- *)
\* success callback of getCurrentPosition
geolocationSuccess(position) ==
    /\ loadingLocation
    /\ userLocation' = <<position>>
    /\ loadingLocation' = FALSE
    /\ UNCHANGED <<nearbyCall, store, storeOk>>
    /\ UNCHANGED engineVars
    /\ UNCHANGED <<cameraActive, cameraSession, timers>>
    /\ CameraScreenRender(TRUE)

\* variant of geolocationError: the request ends without a location
geolocationErrorUnresolved ==
    /\ loadingLocation
    /\ userLocation' = <<>>
    /\ loadingLocation' = FALSE
    /\ UNCHANGED <<nearbyCall, store, storeOk>>
    /\ UNCHANGED engineVars
    /\ UNCHANGED <<cameraActive, cameraSession, timers>>
    /\ CameraScreenRender(TRUE)

\* error callback of getCurrentPosition, or no navigator.geolocation at all
geolocationError ==
    /\ loadingLocation
    /\ userLocation' = <<DefaultLocation>>
    /\ loadingLocation' = FALSE
    /\ UNCHANGED <<nearbyCall, store, storeOk>>
    /\ UNCHANGED engineVars
    /\ UNCHANGED <<cameraActive, cameraSession, timers>>
    /\ CameraScreenRender(TRUE)

\* a screen evaluates isMonsterNearby(m.lat, m.lng) for a monster
callIsMonsterNearby(m) ==
    /\ nearbyCall' = <<[user |-> userLocation, lat |-> m.lat, lng |-> m.lng,
                        result |-> isMonsterNearby(m.lat, m.lng)]>>
    /\ UNCHANGED <<userLocation, loadingLocation, store, storeOk>>
    /\ UNCHANGED engineVars
    /\ UNCHANGED cameraVars

NextNearby ==
    \/ \E position \in GeoPositions : geolocationSuccess(position)
    \/ geolocationError
    \/ \E i \in 1..Len(monsters) : callIsMonsterNearby(monsters[i])

\* the location and the proximity predicate, with the engine at its initial state
SpecNearby == Init /\ [][NextNearby]_vars

(* ---------------------------- camera session --------------------------- *)
\* number of camera sessions explored
MaxSessions == 2
\* number of captures explored through the camera
MaxCameraOps == 2

\* positions reported while the camera is used: on monster 1 (monster 4 is
\* within 0.05 km as well), exactly 0.05 km north of monster 1, on monster 5,
\* far from every monster
CameraPositions == {
    [lat |-> 3760200, lng |-> 12701500],
    [lat |-> 3760245, lng |-> 12701500],
    [lat |-> 3760400, lng |-> 12701700],
    [lat |-> 3760200, lng |-> 12701650] }

\* a camera button on one of the screens: setCameraActive(true); the render
\* mounts CameraScreen, whose mount effect calls setupCamera
openCamera ==
    /\ Ready
    /\ ~cameraActive
    /\ cameraActive' = TRUE
    /\ cameraSession' = cameraSession + 1
    /\ currentMonster' = <<>>
    /\ cameraError' = FALSE
    /\ setups' = staleSetups \cup {[live |-> TRUE, nearby |-> nearbyMonsters]}
    /\ UNCHANGED <<timers, store, storeOk>>
    /\ UNCHANGED engineVars
    /\ UNCHANGED geoVars

\* the back button of the camera screen or of its error screen:
\* setCameraActive(false); CameraScreen is unmounted
closeCamera ==
    /\ Ready
    /\ cameraActive
    /\ cameraActive' = FALSE
    /\ currentMonster' = <<>>
    /\ cameraError' = FALSE
    /\ setups' = staleSetups
    /\ UNCHANGED <<cameraSession, timers, store, storeOk>>
    /\ UNCHANGED engineVars
    /\ UNCHANGED geoVars

\* getUserMedia resolves for a setupCamera call: with nearby uncaptured
\* monsters one of them is picked at random and offered (a no-op once the
\* screen is unmounted); without, the 3 s close timer is scheduled
setupCameraResolved(s) ==
    /\ Ready
    /\ s \in setups
    /\ setups' = setups \ {s}
    /\ IF s.nearby # {}
       THEN /\ IF s.live
               THEN \E id \in s.nearby : currentMonster' = <<monsters[FindIndex(monsters, id)]>>
               ELSE UNCHANGED currentMonster
            /\ UNCHANGED timers
       ELSE /\ timers' = setTimeout(3000)
            /\ UNCHANGED currentMonster
    /\ UNCHANGED <<cameraActive, cameraSession, cameraError, store, storeOk>>
    /\ UNCHANGED engineVars
    /\ UNCHANGED geoVars

\* getUserMedia rejects: the catch block sets cameraError (a no-op once the
\* screen is unmounted) and schedules the 2 s close timer
setupCameraRejected(s) ==
    /\ Ready
    /\ s \in setups
    /\ setups' = setups \ {s}
    /\ cameraError' = IF s.live THEN TRUE ELSE cameraError
    /\ timers' = setTimeout(2000)
    /\ UNCHANGED <<cameraActive, cameraSession, currentMonster, store, storeOk>>
    /\ UNCHANGED engineVars
    /\ UNCHANGED geoVars

\* the capture button, shown unless the error screen is: captureMonster for
\* the offered monster, or the 1.5 s close timer when none is offered
handleCapture ==
    /\ cameraActive
    /\ ~cameraError
    /\ IF currentMonster # <<>>
       THEN captureMonster(currentMonster[1].id)
       ELSE /\ Ready
            /\ timers' = setTimeout(1500)
            /\ UNCHANGED <<cameraActive, cameraSession, currentMonster, cameraError, setups,
                           store, storeOk>>
            /\ UNCHANGED engineVars
            /\ UNCHANGED geoVars

\* a close timer fires: setCameraActive(false), whichever session is shown
timerFires(t) ==
    /\ Ready
    /\ t \in timers
    /\ timers' = timers \ {t}
    /\ cameraActive' = FALSE
    /\ IF cameraActive
       THEN /\ currentMonster' = <<>>
            /\ cameraError' = FALSE
            /\ setups' = staleSetups
       ELSE UNCHANGED <<currentMonster, cameraError, setups>>
    /\ UNCHANGED <<cameraSession, store, storeOk>>
    /\ UNCHANGED engineVars
    /\ UNCHANGED geoVars

NextCamera ==
    \/ cameraSession < MaxSessions /\ openCamera
    \/ closeCamera
    \/ \E s \in setups : setupCameraResolved(s)
    \/ \E s \in setups : setupCameraRejected(s)
    \/ ops < MaxCameraOps /\ handleCapture
    \/ \E t \in timers : timerFires(t)
    \/ \E position \in CameraPositions : geolocationSuccess(position)
    \/ geolocationError
    \/ Effects

\* the camera flow: sessions, camera setup, captures, close timers
SpecCamera == Init /\ [][NextCamera]_vars

\* the one callback of the getCurrentPosition request
geolocationCallback ==
    \/ \E position \in GeoPositions : geolocationSuccess(position)
    \/ geolocationError

\* the location with a geolocation request whose callback fires
SpecLocation == Init /\ [][NextNearby]_vars /\ WF_vars(geolocationCallback)

(* ------------------------------- store --------------------------------- *)
\* localStorage starts to throw on setItem (quota exceeded, storage disabled)
storageFails ==
    /\ storeOk
    /\ storeOk' = FALSE
    /\ UNCHANGED store
    /\ UNCHANGED engineVars
    /\ UNCHANGED geoVars
    /\ UNCHANGED cameraVars

\* localStorage accepts writes again
storageRecovers ==
    /\ ~storeOk
    /\ storeOk' = TRUE
    /\ UNCHANGED store
    /\ UNCHANGED engineVars
    /\ UNCHANGED geoVars
    /\ UNCHANGED cameraVars

StoreReady == ops < MaxStoreOps

NextStore ==
    \/ \E id \in CaptureIds : StoreReady /\ captureMonster(id)
    \/ \E location \in ReportLocations : StoreReady /\ reportIllegalDumping(location)
    \/ \E eventId \in EventIds : StoreReady /\ joinEvent(eventId)
    \/ \E email \in Contacts : StoreReady /\ inviteFriend(email)
    \/ \E id \in {notifications[i].id : i \in 1..Len(notifications)} \cup {0} :
            StoreReady /\ markNotificationAsRead(id)
    \/ StoreReady /\ markAllNotificationsAsRead
    \/ Effects
    \/ storageFails
    \/ storageRecovers

\* the engine with a store whose writes can fail
SpecStore == Init /\ [][NextStore]_vars

(* ------------------------------ map legend ----------------------------- *)
\* the hotspot legend of the map screen: danger "10 or more", caution "5-9",
\* good "1-4" reports
legendLevel(reportCount) ==
    IF reportCount >= 10 THEN "high"
    ELSE IF reportCount >= 5 THEN "medium"
    ELSE "low"

(* -------------------------- environment score -------------------------- *)
\* hotspots.reduce((total, spot) => total + 3 | 2 | 1, 0)
RECURSIVE hotspotSeverity(_)
hotspotSeverity(spots) ==
    IF spots = <<>> THEN 0
    ELSE hotspotSeverity(SubSeq(spots, 1, Len(spots) - 1))
            + (IF Last(spots).level = "high" THEN 3
               ELSE IF Last(spots).level = "medium" THEN 2
               ELSE 1)

\* Math.round of the fraction p / q, q > 0: the nearest integer, halves upwards
MathRound(p, q) == (2 * p + q) \div (2 * q)

\* variant of calculateEnvironmentScore: the result is clamped to 0..100
calculateEnvironmentScoreClamped ==
    LET capturedMonsters == Cardinality({i \in 1..Len(monsters) : monsters[i].captured})
        totalMonsters == Len(monsters)
        raw == IF totalMonsters > 0
               THEN MathRound((100 - hotspotSeverity(hotspots) * 5) * 6 * totalMonsters
                                + capturedMonsters * 100 * 4, 10 * totalMonsters)
               ELSE MathRound((100 - hotspotSeverity(hotspots) * 5) * 6, 10)
    IN  IF raw < 0 THEN 0 ELSE IF raw > 100 THEN 100 ELSE raw

\* the memoised score of the committed hotspots and monsters:
\* Math.round((100 - hotspotSeverity * 5) * 0.6 + (captureRate * 100) * 0.4)
\* with captureRate = capturedMonsters / totalMonsters, or 0 without monsters;
\* computed as the fraction over 10 * totalMonsters
calculateEnvironmentScore ==
    LET capturedMonsters == Cardinality({i \in 1..Len(monsters) : monsters[i].captured})
        totalMonsters == Len(monsters)
    IN  IF totalMonsters > 0
        THEN MathRound((100 - hotspotSeverity(hotspots) * 5) * 6 * totalMonsters
                         + capturedMonsters * 100 * 4, 10 * totalMonsters)
        ELSE MathRound((100 - hotspotSeverity(hotspots) * 5) * 6, 10)

\* number of handler invocations explored on the reporting walk
MaxScoreOps == 16
\* number of handler invocations after which no capture is explored
MaxScoreCaptures == 2

\* a walk through the neighbourhood: points at least 0.1 km from every seed
\* hotspot and from each other
ScorePath == <<
    [lat |-> 3760050, lng |-> 12701400], [lat |-> 3760050, lng |-> 12701520],
    [lat |-> 3760050, lng |-> 12701640], [lat |-> 3760050, lng |-> 12701760],
    [lat |-> 3760110, lng |-> 12701850], [lat |-> 3760130, lng |-> 12701580],
    [lat |-> 3760130, lng |-> 12701700], [lat |-> 3760140, lng |-> 12701410],
    [lat |-> 3760190, lng |-> 12701280], [lat |-> 3760190, lng |-> 12701790],
    [lat |-> 3760210, lng |-> 12701640], [lat |-> 3760230, lng |-> 12701390],
    [lat |-> 3760280, lng |-> 12701560], [lat |-> 3760300, lng |-> 12701680],
    [lat |-> 3760310, lng |-> 12701330], [lat |-> 3760310, lng |-> 12701450] >>

\* coordinates reported on the walk: the next point of the path not reported
\* yet, or the place of the first seed hotspot
ScoreLocations ==
    {DefaultLocation} \cup
        {ScorePath[k] : k \in {Len(hotspots) - Len(SeedHotspots) + 1} \cap 1..Len(ScorePath)}

NextScore ==
    \/ \E location \in ScoreLocations :
            ops < MaxScoreOps /\ reportIllegalDumping(location)
    \/ \E id \in CaptureIds : ops < MaxScoreCaptures /\ captureMonster(id)
    \/ Effects

\* the engine on a long reporting walk
SpecScore == Init /\ [][NextScore]_vars

(* ------------------------------- restart ------------------------------- *)
\* number of handler invocations explored between restarts
MaxRestartOps == 2

\* The page is loaded again: EcoQuestApp mounts, every persisted slice takes
\* its stored item or its initial value, level is initialised from the points
\* just read, the initial badges take that level as the eco hero progress,
\* plain component state starts over and the mount effects are pending.
\* A page is left at rest: the effects of a render run before the browser
\* handles anything else.
mountEcoQuestApp ==
    /\ ~dirty
    /\ userPoints' = useLocalStorageInit(KeyPoints, SeedPoints)
    /\ level' = LevelOf(userPoints')
    /\ hotspots' = useLocalStorageInit(KeyHotspots, SeedHotspots)
    /\ monsters' = useLocalStorageInit(KeyMonsters, SeedMonsters)
    /\ notifications' = useLocalStorageInit(KeyNotifications, SeedNotifications)
    /\ missions' = useLocalStorageInit(KeyMissions, SeedMissions)
    /\ badges' = useLocalStorageInit(KeyBadges, SeedBadges(level'))
    /\ events' = SeedEvents
    /\ userLocation' = <<>>
    /\ loadingLocation' = TRUE
    /\ nearbyCall' = <<>>
    /\ dirty' = TRUE
    \* the page starts without camera screen and without timers
    /\ cameraActive' = FALSE
    /\ currentMonster' = <<>>
    /\ cameraError' = FALSE
    /\ setups' = {}
    /\ timers' = {}
    /\ UNCHANGED <<now, ops, store, storeOk, cameraSession>>

RestartReady == ops < MaxRestartOps

NextRestart ==
    \/ \E id \in CaptureIds : RestartReady /\ captureMonster(id)
    \/ \E location \in ReportLocations : RestartReady /\ reportIllegalDumping(location)
    \/ \E eventId \in EventIds : RestartReady /\ joinEvent(eventId)
    \/ \E email \in Contacts : RestartReady /\ inviteFriend(email)
    \/ \E id \in {notifications[i].id : i \in 1..Len(notifications)} \cup {0} :
            RestartReady /\ markNotificationAsRead(id)
    \/ RestartReady /\ markAllNotificationsAsRead
    \/ Effects
    \/ mountEcoQuestApp

\* the engine with page reloads, the store accepting every write
SpecRestart == Init /\ [][NextRestart]_vars

\* the engine with the effects of every committed render eventually run
SpecReactions == Init /\ [][NextRestart]_vars /\ WF_vars(Effects)

\* ids handed to markNotificationAsRead: the ids in the list and one unknown id
ReadIds == {notifications[i].id : i \in 1..Len(notifications)} \cup {0}

Next ==
    \/ \E id \in CaptureIds : OpsReady /\ captureMonster(id)
    \/ \E location \in ReportLocations : OpsReady /\ reportIllegalDumping(location)
    \/ \E eventId \in EventIds : OpsReady /\ joinEvent(eventId)
    \/ \E email \in Contacts : OpsReady /\ inviteFriend(email)
    \/ \E id \in ReadIds : OpsReady /\ markNotificationAsRead(id)
    \/ OpsReady /\ markAllNotificationsAsRead
    \/ Effects
    \/ Tick

Spec == Init /\ [][Next]_vars

TypeOK ==
    /\ userPoints \in Nat
    /\ level \in Nat
    /\ dirty \in BOOLEAN
    /\ ops \in Nat

(* ======================================================================= *)
(*                               properties                                *)
(* ======================================================================= *)
\* the render is at rest: the effects of the last render have run and
\* called no setter
Settled == ~dirty

IsCaptured(id) ==
    /\ FindIndex(monsters, id) # 0
    /\ monsters[FindIndex(monsters, id)].captured

IsUncaptured(id) ==
    /\ FindIndex(monsters, id) # 0
    /\ ~monsters[FindIndex(monsters, id)].captured

\* mission mid goes from not completed to completed in this step
Completes(mid) ==
    /\ FindIndex(missions, mid) # 0
    /\ ~missions[FindIndex(missions, mid)].completed
    /\ missions'[FindIndex(missions, mid)].completed

RewardOf(mid) == missions[FindIndex(missions, mid)].reward

\* C1: a captureMonster call on a monster that is already captured is a
\* no-op: it changes neither points, notifications, missions nor badges (so
\* a monster's point value is added at most once).
C1_RecaptureIsNoOp ==
    [][\A id \in CaptureIds :
          (IsCaptured(id) /\ captureMonster(id))
              => UNCHANGED <<userPoints, notifications, missions, badges>>]_vars

\* C2: the operation whose increment completes a mission leaves the points
\* at the points before it plus the mission's full reward plus whatever
\* else the operation awards (the monster's points for a capture, 50 for a
\* report, nothing for a join or an invite).
C2_RewardAtCrossing ==
    [][/\ \A id \in CaptureIds :
            (IsUncaptured(id) /\ captureMonster(id) /\ Completes(1))
                => userPoints' = userPoints + monsters[FindIndex(monsters, id)].points + RewardOf(1)
       /\ \A location \in ReportLocations :
            (reportIllegalDumping(location) /\ Completes(2))
                => userPoints' = userPoints + ReportPoints + RewardOf(2)
       /\ \A eventId \in EventIds :
            (joinEvent(eventId) /\ Completes(4))
                => userPoints' = userPoints + RewardOf(4)
       /\ \A email \in Contacts :
            (inviteFriend(email) /\ Completes(3))
                => userPoints' = userPoints + RewardOf(3)]_vars

\* C3: captureMonster on an existing, uncaptured monster sets its captured
\* flag and leaves points = points before + the monster's point value, plus
\* the plastic mission's reward exactly when this capture completes it.
C3_CapturePoints ==
    [][\A id \in CaptureIds :
          (IsUncaptured(id) /\ captureMonster(id))
              => /\ monsters'[FindIndex(monsters, id)].captured
                 /\ userPoints' = userPoints + monsters[FindIndex(monsters, id)].points
                                    + (IF Completes(1) THEN RewardOf(1) ELSE 0)]_vars

\* C4: a badge that has reached its total is unlocked once the reactions
\* have settled; the step that unlocks a badge adds exactly one notification
\* (the unlock notification of that badge) and exactly 100 points; an
\* unlocked badge stays unlocked; a reaction step that unlocks no badge
\* grants no points.
C4_BadgeUnlockOnce ==
    [][/\ Settled => \A i \in 1..Len(badges) :
                        badges[i].progress >= badges[i].total => badges[i].unlocked
       /\ Len(badges') = Len(badges)
       /\ \A i \in 1..Len(badges) :
            /\ badges[i].unlocked => badges'[i].unlocked
            /\ (~badges[i].unlocked /\ badges'[i].unlocked)
                  => /\ badges[i].progress >= badges[i].total
                     /\ userPoints' = userPoints + 100
                     /\ Len(notifications') = Len(notifications) + 1
                     /\ Head(notifications').msg = "badge"
                     /\ Head(notifications').arg = badges[i].id
                     /\ Tail(notifications') = notifications
       /\ (Effects /\ \A i \in 1..Len(badges) : badges'[i].unlocked = badges[i].unlocked)
              => userPoints' = userPoints]_vars

\* C4 witness: a badge was unlocked and its progress then went past the total
C4_Witness ==
    \E i \in 1..Len(badges) :
        badges[i].unlocked /\ badges[i].progress > badges[i].total /\ badges[i].id = 2

\* C5: once an operation and the reactions it triggers are over, level equals
\* floor(points / 100) + 1.
C5_LevelFormula == Settled => level = (userPoints \div 100) + 1

\* C5 witness: at rest with a level above the initial one
C5_Witness == Settled /\ ops > 0 /\ level > 8

\* C6: every reaction step that raises the level adds a level-up notification
\* for the new level at the head of the list and overwrites the eco hero
\* badge's progress with the new level; at rest the eco hero badge's progress
\* equals the level.
C6_LevelUpReaction ==
    [][/\ (Effects /\ level' > level)
            => /\ \E i \in 1..Len(notifications') :
                     /\ i <= Len(notifications') - Len(notifications)
                     /\ notifications'[i].msg = "levelUp"
                     /\ notifications'[i].arg = level'
               /\ badges'[FindIndex(badges, 5)].progress = level'
       /\ Settled => badges[FindIndex(badges, 5)].progress = level]_vars

\* C7: for every mission, completed holds exactly when progress >= total.
C7_CompletedIffProgress ==
    \A i \in 1..Len(missions) :
        missions[i].completed <=> (missions[i].progress >= missions[i].total)

\* C7 witness: some mission was completed by an operation
C7_Witness == \E i \in 1..Len(missions) : missions[i].completed

\* C8: no step lowers the progress of a mission or of a badge.
C8_ProgressMonotone ==
    [][/\ Len(missions') = Len(missions)
       /\ Len(badges') = Len(badges)
       /\ \A i \in 1..Len(missions) : missions'[i].progress >= missions[i].progress
       /\ \A i \in 1..Len(badges) : badges'[i].progress >= badges[i].progress]_vars

\* C8 witness: the eco hero badge's progress was overwritten on a level-up
C8_Witness == badges[FindIndex(badges, 5)].progress > 8

\* C9: points are a non-negative integer and no step lowers them.
C9_PointsMonotone ==
    [][(userPoints \in Nat) /\ (userPoints' \in Nat) /\ (userPoints' >= userPoints)]_vars

\* C9 witness: points were granted by an operation and by a badge unlock
C9_Witness == userPoints > SeedPoints /\ \E i \in 1..Len(badges) : badges[i].unlocked

\* C10: every hotspot's severity is high when reportCount > 10, medium when
\* reportCount > 5 and low otherwise.
C10_SeverityOfCount ==
    \A i \in 1..Len(hotspots) :
        hotspots[i].level =
            (CASE hotspots[i].reportCount > 10 -> "high"
               [] hotspots[i].reportCount > 5 /\ hotspots[i].reportCount <= 10 -> "medium"
               [] OTHER -> "low")

\* C10 witness: a seed hotspot was reported up from 8 to 11 reports
C10_Witness ==
    \E i \in 1..Len(hotspots) :
        hotspots[i].id = 2 /\ hotspots[i].reportCount = 11 /\ hotspots[i].level = "high"

\* severity table of the data model: high above 10 reports, medium above 5
SeverityOf(count) ==
    IF count > 10 THEN "high" ELSE IF count > 5 THEN "medium" ELSE "low"

\* the hotspots closer than 0.1 km to a location, as indices in stored order
Within(location) ==
    {i \in 1..Len(hotspots) :
        calculateDistance(hotspots[i].lat, hotspots[i].lng, location.lat, location.lng)
            < HotspotRadius * HotspotRadius}

\* number of notifications a step puts in front of the list
Added == Len(notifications') - Len(notifications)

\* C11: a report at coordinates with no hotspot closer than 0.1 km adds
\* exactly one hotspot, at the end of the list, at the reported coordinates
\* with reportCount = 1 and severity low; the existing hotspots are unchanged.
C11_ReportCreatesHotspot ==
    [][\A location \in ReportLocations :
          (Within(location) = {} /\ reportIllegalDumping(location))
              => /\ Len(hotspots') = Len(hotspots) + 1
                 /\ SubSeq(hotspots', 1, Len(hotspots)) = hotspots
                 /\ hotspots'[Len(hotspots')].lat = location.lat
                 /\ hotspots'[Len(hotspots')].lng = location.lng
                 /\ hotspots'[Len(hotspots')].reportCount = 1
                 /\ hotspots'[Len(hotspots')].level = "low"]_vars

\* C11 witness: a hotspot was created by a report
C11_Witness ==
    /\ Len(hotspots) = Len(SeedHotspots) + 1
    /\ hotspots[Len(hotspots)].reportCount = 1
    /\ SubSeq(hotspots, 1, Len(SeedHotspots)) = SeedHotspots

\* C12: a report closer than 0.1 km to one or more hotspots updates exactly
\* the first of them in stored order: its reportCount grows by 1, its
\* severity is recomputed from the new count and its last report is now; no
\* hotspot is created or deleted and every other hotspot is unchanged.
C12_ReportUpdatesFirst ==
    [][\A location \in ReportLocations :
          (Within(location) # {} /\ reportIllegalDumping(location))
              => LET k == CHOOSE i \in Within(location) : \A j \in Within(location) : i <= j
                 IN  hotspots' = [hotspots EXCEPT
                        ![k] = [hotspots[k] EXCEPT
                                  !.reportCount = hotspots[k].reportCount + 1,
                                  !.level = SeverityOf(hotspots[k].reportCount + 1),
                                  !.lastReport = "now"]]]_vars

\* C12 witness: three reports between hotspots 2 and 4 took hotspot 2 from
\* 8 over 10 (medium) to 11 (high) and left hotspot 4 alone
C12_Witness ==
    /\ Len(hotspots) = Len(SeedHotspots)
    /\ hotspots[2].reportCount = 11 /\ hotspots[2].level = "high"
    /\ hotspots[4] = SeedHotspots[4]
    /\ hotspots[1] = SeedHotspots[1]

\* C13: every report awards exactly 50 points over and above the mission
\* reward it may grant, increments the guardian badge (id 2) by exactly 1
\* whether or not it is unlocked, and increments the report mission (id 2)
\* by 1 while that mission is not completed.
C13_ReportSideEffects ==
    [][\A location \in ReportLocations :
          reportIllegalDumping(location)
              => /\ userPoints' = userPoints + 50 + (IF Completes(2) THEN RewardOf(2) ELSE 0)
                 /\ badges'[FindIndex(badges, 2)].progress = badges[FindIndex(badges, 2)].progress + 1
                 /\ missions'[FindIndex(missions, 2)].progress =
                        missions[FindIndex(missions, 2)].progress
                          + (IF missions[FindIndex(missions, 2)].completed THEN 0 ELSE 1)]_vars

\* C14: no two notifications in the list share an id.
C14_UniqueNotificationIds ==
    \A i \in 1..Len(notifications) : \A j \in 1..Len(notifications) :
        i # j => notifications[i].id # notifications[j].id

\* C15: the list only grows at its head and keeps what it had in the same
\* order; a capture of a known monster, a report, a join of a known event
\* and an invite each put their confirmation notification in front, and the
\* mission-completion notification as well when they complete their mission.
C15_NotificationsGrowAtHead ==
    [][/\ Added >= 0
       /\ [i \in 1..Len(notifications) |-> notifications'[i + Added].id]
            = [i \in 1..Len(notifications) |-> notifications[i].id]
       /\ \A id \in CaptureIds :
            (FindIndex(monsters, id) # 0 /\ captureMonster(id))
                => Added = 1 + (IF Completes(1) THEN 1 ELSE 0)
       /\ \A location \in ReportLocations :
            reportIllegalDumping(location)
                => Added = 1 + (IF Completes(2) THEN 1 ELSE 0)
       /\ \A eventId \in EventIds :
            (FindIndex(events, eventId) # 0 /\ joinEvent(eventId))
                => Added = 1 + (IF Completes(4) THEN 1 ELSE 0)
       /\ \A email \in Contacts :
            inviteFriend(email)
                => Added = 1 + (IF Completes(3) THEN 1 ELSE 0)]_vars

\* the notifications with the given id are all read
AllReadWithId(id) ==
    \A i \in 1..Len(notifications) : notifications[i].id = id => notifications[i].read

\* C16: a read flag never goes back to false in any step;
\* markNotificationAsRead(id) sets read on the notifications with that id
\* and changes nothing else in the list; markAllNotificationsAsRead sets
\* read on all and changes nothing else; repeating either changes nothing.
C16_ReadOneWay ==
    [][/\ Added >= 0
       /\ \A i \in 1..Len(notifications) :
            notifications[i].read => notifications'[i + Added].read
       /\ \A id \in ReadIds :
            markNotificationAsRead(id)
                => /\ Added = 0
                   /\ \A i \in 1..Len(notifications) :
                        notifications'[i] =
                            IF notifications[i].id = id
                            THEN [notifications[i] EXCEPT !.read = TRUE]
                            ELSE notifications[i]
                   /\ AllReadWithId(id) => notifications' = notifications
       /\ markAllNotificationsAsRead
                => /\ Added = 0
                   /\ \A i \in 1..Len(notifications) :
                        notifications'[i] = [notifications[i] EXCEPT !.read = TRUE]
                   /\ (\A i \in 1..Len(notifications) : notifications[i].read)
                        => notifications' = notifications]_vars

\* C16 witness: a notification created by an operation was marked read while
\* an older one is still unread and a newer one was added after the marking
C16_Witness ==
    \E i \in 1..Len(notifications) :
        /\ notifications[i].id >= T0 /\ notifications[i].read
        /\ i > 1 /\ ~notifications[1].read
        /\ \E j \in 1..Len(notifications) : j > i /\ ~notifications[j].read

\* C18: joinEvent on a known event adds 1 to that event's participants and
\* changes no other event, puts a join-confirmation notification in front of
\* the list, adds 1 to the community mission (id 4) while it is not
\* completed, granting its reward at the crossing and no other points, and
\* adds 1 to the community star badge (id 4); joinEvent on an unknown id
\* changes neither events, points, missions, badges nor notifications.
C18_JoinEvent ==
    [][\A eventId \in EventIds :
          joinEvent(eventId)
              => IF FindIndex(events, eventId) # 0
                 THEN /\ events' = [events EXCEPT ![FindIndex(events, eventId)].participants = @ + 1]
                      /\ \E i \in 1..Added : notifications'[i].msg = "join"
                      /\ missions'[FindIndex(missions, 4)].progress =
                            missions[FindIndex(missions, 4)].progress
                              + (IF missions[FindIndex(missions, 4)].completed THEN 0 ELSE 1)
                      /\ userPoints' = userPoints + (IF Completes(4) THEN RewardOf(4) ELSE 0)
                      /\ badges'[FindIndex(badges, 4)].progress =
                            badges[FindIndex(badges, 4)].progress + 1
                 ELSE UNCHANGED <<events, userPoints, missions, badges, notifications>>]_vars

\* C19: whatever the contact, inviteFriend adds 1 to the invite mission
\* (id 3) while it is not completed, completing it and granting its reward
\* when the total is reached; it leaves a completed mission and the points
\* alone; it puts an invite-confirmation notification at the head of the
\* list; and the step taken for one contact is a step for every contact.
C19_InviteFriend ==
    [][\A email \in Contacts :
          inviteFriend(email)
              => LET m == missions[FindIndex(missions, 3)]
                 IN  /\ IF ~m.completed
                        THEN /\ missions' = [missions EXCEPT
                                    ![FindIndex(missions, 3)] =
                                        [m EXCEPT !.progress = m.progress + 1,
                                                  !.completed = (m.progress + 1 >= m.total)]]
                             /\ userPoints' = userPoints
                                    + (IF m.progress + 1 >= m.total THEN m.reward ELSE 0)
                        ELSE missions' = missions /\ userPoints' = userPoints
                     /\ Added >= 1
                     /\ Head(notifications').msg = "invite"
                     /\ \A other \in Contacts : inviteFriend(other)]_vars

\* C19 witness: the invite mission was completed by two invites and a third
\* invite was confirmed afterwards
C19_Witness ==
    /\ missions[FindIndex(missions, 3)].completed
    /\ missions[FindIndex(missions, 3)].progress = missions[FindIndex(missions, 3)].total
    /\ userPoints >= SeedPoints + missions[FindIndex(missions, 3)].reward
    /\ Cardinality({i \in 1..Len(notifications) : notifications[i].msg = "invite"}) = 3

C20_WriteFailureAbsorbed ==
    [][/\ ~storeOk =>
            /\ store' = store
            /\ \A location \in ReportLocations :
                  reportIllegalDumping(location)
                      => /\ userPoints' = userPoints + 50
                         /\ badges'[FindIndex(badges, 2)].progress
                                = badges[FindIndex(badges, 2)].progress + 1
                         /\ hotspots' # hotspots
                         /\ dirty'
            /\ \A id \in CaptureIds :
                  (FindIndex(monsters, id) # 0 /\ captureMonster(id))
                      => /\ monsters'[FindIndex(monsters, id)].captured
                         /\ userPoints' > userPoints
                         /\ dirty'
            /\ \A email \in Contacts :
                  inviteFriend(email) => Added >= 1 /\ Head(notifications').msg = "invite"
            /\ \A eventId \in EventIds :
                  (FindIndex(events, eventId) # 0 /\ joinEvent(eventId))
                      => badges'[FindIndex(badges, 4)].progress
                            = badges[FindIndex(badges, 4)].progress + 1
            /\ markAllNotificationsAsRead
                      => \A i \in 1..Len(notifications') : notifications'[i].read
       /\ (storageRecovers \/ (Effects /\ ~dirty')) => store' = store]_vars

\* C20 witness: writes work again, the points granted while they failed are
\* in memory at rest, and the store still holds no points at all
C20_Witness ==
    /\ storeOk /\ Settled
    /\ userPoints > SeedPoints
    /\ KeyPoints \notin DOMAIN store

\* what a key holds for a restart: the stored value, or the slice's value of
\* the first start when the key was never written
Persisted(key, seed) == IF key \in DOMAIN store THEN store[key][1] ELSE seed

\* C21: with every store write succeeding, after every step each of the six
\* keys holds the in-memory value of its slice (an absent key standing for
\* the seed value), and a restart leaves the six slices exactly as the
\* session had them, with level = floor(points / 100) + 1.
C21_StoreMirrorsMemory ==
    [][/\ Persisted(KeyPoints, SeedPoints)' = userPoints'
       /\ Persisted(KeyHotspots, SeedHotspots)' = hotspots'
       /\ Persisted(KeyMonsters, SeedMonsters)' = monsters'
       /\ Persisted(KeyNotifications, SeedNotifications)' = notifications'
       /\ Persisted(KeyMissions, SeedMissions)' = missions'
       /\ Persisted(KeyBadges, SeedBadges((SeedPoints \div 100) + 1))' = badges'
       /\ mountEcoQuestApp
            => /\ UNCHANGED <<userPoints, hotspots, monsters, notifications, missions, badges>>
               /\ level' = (userPoints \div 100) + 1]_vars

\* C21 witness: the app was restarted after a join that completed the
\* community mission: the events are the initial ones again, the points,
\* the mission and the badge are those of the session
C21_Witness ==
    /\ events = SeedEvents
    /\ userPoints >= SeedPoints + 250
    /\ missions[FindIndex(missions, 4)].completed
    /\ badges[FindIndex(badges, 4)].progress = 8
    /\ KeyHotspots \notin DOMAIN store

\* C22: the user location starts unresolved; the success callback sets it to
\* the reported coordinates, the error callback (or missing geolocation) to
\* the default pair (37.602, 127.015); a resolved location stays resolved;
\* the callback changes no points, hotspots, monsters, missions, badges or
\* notifications; and when the callback fires the location is eventually
\* resolved.
C22_LocationResolves ==
    /\ userLocation = <<>>
    /\ [][/\ \A position \in GeoPositions :
               geolocationSuccess(position)
                   => /\ userLocation = <<>>
                      /\ userLocation'[1].lat = position.lat
                      /\ userLocation'[1].lng = position.lng
          /\ geolocationError
                   => /\ userLocation = <<>>
                      /\ userLocation' = <<[lat |-> 3760200, lng |-> 12701500]>>
          /\ (userLocation # <<>>) => (userLocation' = userLocation)
          /\ (userLocation' # userLocation)
                   => UNCHANGED <<userPoints, hotspots, monsters, missions, badges, notifications>>]_vars
    /\ <>[](userLocation # <<>>)

\* C22 witness: the request was answered with coordinates other than the
\* default pair and a proximity test ran on them afterwards
C22_Witness ==
    /\ ~loadingLocation
    /\ userLocation = <<[lat |-> 3760300, lng |-> 12701800]>>
    /\ nearbyCall # <<>>
    /\ nearbyCall[1].user = userLocation

\* number of hotspots of a severity
CountLevel(lv) == Cardinality({i \in 1..Len(hotspots) : hotspots[i].level = lv})

Unknown(s, id) == \A i \in 1..Len(s) : s[i].id # id

\* C24: captureMonster with an id of no monster and markNotificationAsRead
\* with an id of no notification run to their end whenever the app is at
\* rest and leave points, monsters, missions, badges and notifications as
\* they were.
C24_UnknownIdNoOp ==
    /\ [](Settled => /\ ENABLED captureMonster(7)
                      /\ ENABLED markNotificationAsRead(0))
    /\ [][/\ \A id \in CaptureIds :
               (Unknown(monsters, id) /\ captureMonster(id))
                   => UNCHANGED <<userPoints, monsters, missions, badges, notifications>>
          /\ \A id \in ReadIds :
               (Unknown(notifications, id) /\ markNotificationAsRead(id))
                   => UNCHANGED <<userPoints, monsters, missions, badges, notifications>>]_vars

\* C24 witness: a capture with an unknown id and a mark-read ran (the only
\* keys written are the monsters' and the notifications') and every slice
\* still has its initial value
C24_Witness ==
    /\ ops = 2
    /\ DOMAIN store = {KeyMonsters, KeyNotifications}
    /\ userPoints = SeedPoints
    /\ monsters = SeedMonsters
    /\ notifications = SeedNotifications
    /\ missions = SeedMissions

\* C25: a capture of a plastic monster adds exactly 1 to the plastic hunter
\* badge (id 1) and leaves the other badges' progress alone, and adds exactly
\* 1 to the plastic mission (id 1) while it is not completed, leaving the
\* other missions alone; a capture of a monster of another type changes no
\* mission and no badge progress; a capture changes nothing in the monsters
\* but the captured flag of the captured monster, and no hotspot.
C25_OnlyPlasticProgress ==
    [][\A id \in CaptureIds :
          (~Unknown(monsters, id) /\ captureMonster(id))
              => LET k == CHOOSE i \in 1..Len(monsters) : monsters[i].id = id
                     plastic == monsters[k].type = "plastic"
                 IN  /\ Len(badges') = Len(badges)
                     /\ \A i \in 1..Len(badges) :
                           badges'[i].progress = badges[i].progress
                               + (IF plastic /\ badges[i].id = 1 THEN 1 ELSE 0)
                     /\ Len(missions') = Len(missions)
                     /\ \A i \in 1..Len(missions) :
                           /\ missions'[i].progress = missions[i].progress
                               + (IF plastic /\ missions[i].id = 1 /\ ~missions[i].completed
                                  THEN 1 ELSE 0)
                           /\ ~plastic => missions'[i] = missions[i]
                     /\ monsters' = [monsters EXCEPT ![k].captured = TRUE]
                     /\ hotspots' = hotspots]_vars

\* C25 witness: three plastic monsters were captured: the badge went from 4
\* to 7, the mission from 1 to its total 3 and no further
C25_Witness ==
    /\ badges[1].id = 1 /\ badges[1].progress = 7
    /\ missions[1].id = 1 /\ missions[1].progress = 3 /\ missions[1].completed
    /\ \A i \in 1..Len(monsters) : monsters[i].type = "plastic" => monsters[i].captured

\* C26: the severity of every hotspot is the one the map legend gives for
\* its report count: high from 10 reports, medium for 5 to 9, low for 1 to 4.
C26_SeverityFollowsLegend ==
    \A i \in 1..Len(hotspots) :
        /\ hotspots[i].reportCount >= 1
        /\ hotspots[i].level = legendLevel(hotspots[i].reportCount)

\* C27: the reactions that follow an operation come to rest: every render
\* whose effects are pending leads to a state at rest, and at rest neither
\* reaction has anything to do: the level is the one computed from the
\* points and no locked badge has reached its total.
C27_ReactionsSettle ==
    /\ [](Settled =>
            /\ level = (userPoints \div 100) + 1
            /\ \A i \in 1..Len(badges) :
                  ~(badges[i].progress >= badges[i].total /\ ~badges[i].unlocked))
    /\ (dirty ~> Settled)

\* C27 witness: at rest after the chain points -> level -> eco hero progress
\* -> unlock -> 100 points -> level has run
C27_Witness ==
    /\ Settled
    /\ badges[FindIndex(badges, 5)].unlocked
    /\ level = LevelOf(userPoints)
    /\ level >= 12

\* C28: a close timer that fires while the camera is shown was scheduled in
\* the session that is shown: a timer of an earlier session, still pending
\* after the camera was closed and opened again, does not close the later
\* session.
C28_TimerClosesOwnSession ==
    [][\A t \in timers :
          (t.session # 0 /\ timerFires(t) /\ cameraActive /\ ~cameraActive')
              => t.session = cameraSession]_vars

\* the monster is at most 0.05 km from the resolved user location
Within50m(m) ==
    /\ userLocation # <<>>
    /\ (m.lat - userLocation[1].lat) * (m.lat - userLocation[1].lat) * LatUnit * LatUnit
         + (m.lng - userLocation[1].lng) * (m.lng - userLocation[1].lng) * LngUnit * LngUnit
            <= NearbyRadius * NearbyRadius

\* the monster of the list with the id is not captured
Uncaptured(id) == \E i \in 1..Len(monsters) : monsters[i].id = id /\ ~monsters[i].captured

C30_MissionProgressBounded ==
    \A i \in 1..Len(missions) :
        /\ missions[i].progress <= missions[i].total
        /\ missions[i].completed => missions[i].progress = missions[i].total

\* C30 witness: after two joins the community mission is completed and
\* stays at its total 1 while the community badge went on to 9, and the eco
\* hero badge's progress is beyond its total
C30_Witness ==
    /\ missions[4].id = 4 /\ missions[4].completed
    /\ missions[4].progress = 1
    /\ badges[4].id = 4 /\ badges[4].progress = 9
    /\ badges[5].progress > badges[5].total

====
